---------------------------- MODULE Spec2Model ----------------------------
(***************************************************************************)
(* A model of the tendermint KMS signer:                                   *)
(*   - the amino codec of a Vote (src/types/vote.rs): serialize and        *)
(*     deserialize, byte for byte;                                         *)
(*   - the signing session (src/session.rs): handle_request and sign.      *)
(*                                                                         *)
(* Bytes are the integers 0..255 and a buffer is a sequence of bytes.      *)
(* The primitives of the amino crate (varints, field keys, length-prefixed *)
(* bytes, the time codec, the disfix) are not part of the two source files *)
(* and are written from the specification and pinned by the byte vectors   *)
(* of vote.rs's own tests (see TestVector1, TestVector2).                  *)
(*                                                                         *)
(* TLC's integers are 32 bits wide.  The encodings keep their wire width   *)
(* (eight bytes for an int64, four for the nanoseconds); the values drawn  *)
(* for the fields stay below 2^31 in magnitude.                            *)
(***************************************************************************)
EXTENDS Integers, Sequences, FiniteSets, TLC

VARIABLES
    \* ---- codec ----
    vote,       \* the Vote handed to serialize
    wire,       \* the bytes handed to deserialize
    tamper,     \* what was done to the bytes after serialize
    res,        \* the outcome of deserialize
    pc,         \* "start" | "serialized" | "decoded"
    \* ---- session ----
    sent,       \* every request frame the validator has written, in order
    socket_in,  \* those of them the session has not read yet
    peer_open,  \* the validator still holds its end of the stream open
    socket_out, \* what the session has written to the stream
    keyring,    \* the public keys the keyring holds a signer for
    status,     \* "Serving" | "Closed": the caller's loop
    calls       \* one record per handle_request call made so far

codec_vars   == <<vote, wire, tamper, res, pc>>
session_vars == <<sent, socket_in, peer_open, socket_out, keyring, status, calls>>
vars         == <<vote, wire, tamper, res, pc,
                  sent, socket_in, peer_open, socket_out, keyring, status, calls>>

---------------------------------------------------------------------------
(* Sequences of bytes *)

Repeat(b, n) == [i \in 1..n |-> b]

Slice(s, from, to) == [i \in 1..(to - from + 1) |-> s[from + i - 1]]

Last(s) == s[Len(s)]

---------------------------------------------------------------------------
(* amino primitives: encode side *)

typ3_to_byte(t) ==
    CASE t = "Typ3_Varint"     -> 0
      [] t = "Typ3_8Byte"      -> 1
      [] t = "Typ3_ByteLength" -> 2
      [] t = "Typ3_Struct"     -> 3
      [] t = "Typ3_StructTerm" -> 4
      [] t = "Typ3_4Byte"      -> 5
      [] t = "Typ3_List"       -> 6
      [] t = "Typ3_Interface"  -> 7

RECURSIVE encode_uvarint(_)
encode_uvarint(u) ==
    IF u < 128 THEN <<u>>
    ELSE <<(u % 128) + 128>> \o encode_uvarint(u \div 128)

\* zig-zag: (n << 1) ^ (n >> 63)
zigzag(i) == IF i >= 0 THEN 2 * i ELSE (-2 * i) - 1

encode_varint(i) == encode_uvarint(zigzag(i))

\* the n low bytes of a non-negative u, most significant first
RECURSIVE be_bytes(_, _)
be_bytes(u, n) ==
    IF n = 0 THEN <<>> ELSE be_bytes(u \div 256, n - 1) \o <<u % 256>>

\* two's complement on `width` bytes, most significant first; u stays below
\* 2^31 in magnitude, so the bytes above the fourth are the sign extension
fixed_be(i, width) ==
    LET low == IF width < 4 THEN width ELSE 4
        mag == IF i >= 0 THEN be_bytes(i, low)
               ELSE [k \in 1..low |-> 255 - be_bytes((-i) - 1, low)[k]]
        ext == IF i >= 0 THEN 0 ELSE 255
    IN  Repeat(ext, width - low) \o mag

encode_int64(i) == fixed_be(i, 8)

encode_int32(i) == fixed_be(i, 4)

encode_uint8(b) == encode_uvarint(b)

\* (field_number << 3) | typ3, as a uvarint
encode_field_number_typ3(num, t) == encode_uvarint(num * 8 + typ3_to_byte(t))

amino_bytes_encode(b) == encode_uvarint(Len(b)) \o b

\* seconds as field 1 (8Byte), nanoseconds as field 2 (4Byte), StructTerm
amino_time_encode(ts) ==
    encode_field_number_typ3(1, "Typ3_8Byte") \o encode_int64(ts.secs)
    \o encode_field_number_typ3(2, "Typ3_4Byte") \o encode_int32(ts.nanos)
    \o <<typ3_to_byte("Typ3_StructTerm")>>

\* the prefix bytes of "tendermint/socketpv/SignVoteMsg", low three bits clear
compute_disfix_pre == <<108, 29, 58, 48>>

vote_type_to_char(vt) ==
    CASE vt = "PreVote"   -> 1
      [] vt = "PreCommit" -> 2

---------------------------------------------------------------------------
(* Option<Signature> *)

None == [is_some |-> FALSE, bytes |-> <<>>]

Some(b) == [is_some |-> TRUE, bytes |-> b]

SIGNATURE_SIZE == 64

---------------------------------------------------------------------------
(* Vote::serialize *)

StructTerm == typ3_to_byte("Typ3_StructTerm")

\* the disfix with the Struct tag in the low bits of its last byte
serialize_disfix ==
    [compute_disfix_pre EXCEPT ![4] = @ + typ3_to_byte("Typ3_Struct")]

\* a serialize that writes the key and the length of an empty address
serialize_validator_address_always(addr) ==
    encode_field_number_typ3(1, "Typ3_ByteLength") \o amino_bytes_encode(addr)

serialize_validator_address(addr) ==
    IF addr # <<>>
    THEN encode_field_number_typ3(1, "Typ3_ByteLength") \o amino_bytes_encode(addr)
    ELSE <<>>

serialize_parts_header(ph) ==
    encode_field_number_typ3(2, "Typ3_Struct")
    \o encode_field_number_typ3(1, "Typ3_Varint") \o encode_varint(ph.total)
    \o (IF ph.hash # <<>>
        THEN encode_field_number_typ3(2, "Typ3_ByteLength") \o amino_bytes_encode(ph.hash)
        ELSE <<>>)
    \o <<StructTerm>>

serialize_block_id(bid) ==
    encode_field_number_typ3(7, "Typ3_Struct")
    \o (IF bid.hash # <<>>
        THEN encode_field_number_typ3(1, "Typ3_ByteLength") \o amino_bytes_encode(bid.hash)
        ELSE <<>>)
    \o serialize_parts_header(bid.parts_header)
    \o <<StructTerm>>

serialize_signature(sig) ==
    IF sig.is_some
    THEN encode_field_number_typ3(8, "Typ3_Interface") \o amino_bytes_encode(sig.bytes)
    ELSE <<>>

\* the disfix and the fields 1 to 7 of the Vote
serialize_fields(v) ==
    serialize_disfix
    \o encode_field_number_typ3(1, "Typ3_Struct")
    \o serialize_validator_address(v.validator_address)
    \o encode_field_number_typ3(2, "Typ3_Varint") \o encode_varint(v.validator_index)
    \o encode_field_number_typ3(3, "Typ3_8Byte") \o encode_int64(v.height)
    \o encode_field_number_typ3(4, "Typ3_Varint") \o encode_varint(v.round)
    \o encode_field_number_typ3(5, "Typ3_Struct") \o amino_time_encode(v.timestamp)
    \o encode_field_number_typ3(6, "Typ3_Varint")
    \o encode_uint8(vote_type_to_char(v.vote_type))
    \o serialize_block_id(v.block_id)

\* the end of the main struct, then the end of the message
serialize_close == <<StructTerm>> \o <<StructTerm>>

\* the buffer before the length is put in front of it
serialize_body(v) ==
    serialize_fields(v) \o serialize_signature(v.signature) \o serialize_close

\* a serialize that takes the length before the last StructTerm is put
serialize_frame_short(buf) == encode_uvarint(Len(buf) - 1) \o buf

serialize_frame(buf) == encode_uvarint(Len(buf)) \o buf

serialize(v) == serialize_frame(serialize_body(v))

---------------------------------------------------------------------------
(* The records and byte vectors of vote.rs's tests *)

TestAddr == <<163, 178, 204, 221, 113, 134, 241, 104, 95, 33,
              242, 72, 42, 244, 251, 52, 70, 168, 75, 53>>

Bytes_hash == <<104, 97, 115, 104>>

Bytes_parts_hash == <<112, 97, 114, 116, 115, 95, 104, 97, 115, 104>>

\* 2017-12-25T03:00:01.234Z
TestTime == [secs |-> 1514170801, nanos |-> 234000000]

TestVote1 ==
    [validator_address |-> TestAddr, validator_index |-> 56789,
     height |-> 12345, round |-> 2, timestamp |-> TestTime,
     vote_type |-> "PreVote",
     block_id |-> [hash |-> Bytes_hash,
                   parts_header |-> [total |-> 1000000, hash |-> Bytes_parts_hash]],
     signature |-> None]

TestVote2 ==
    [TestVote1 EXCEPT !.block_id.parts_header = [total |-> 0, hash |-> <<>>]]

TestVector1 ==
    <<88, 108, 29, 58, 51, 11, 10, 20>> \o TestAddr
    \o <<16, 170, 247, 6, 25, 0, 0, 0, 0, 0, 0, 48, 57, 32, 4,
         43, 9, 0, 0, 0, 0, 90, 64, 105, 177, 21, 13, 242, 142, 128, 4,
         48, 1, 59, 10, 4>> \o Bytes_hash
    \o <<19, 8, 128, 137, 122, 18, 10>> \o Bytes_parts_hash
    \o <<4, 4, 4, 4>>

TestVector2 ==
    <<74, 108, 29, 58, 51, 11, 10, 20>> \o TestAddr
    \o <<16, 170, 247, 6, 25, 0, 0, 0, 0, 0, 0, 48, 57, 32, 4,
         43, 9, 0, 0, 0, 0, 90, 64, 105, 177, 21, 13, 242, 142, 128, 4,
         48, 1, 59, 10, 4>> \o Bytes_hash
    \o <<19, 8, 0, 4, 4, 4, 4>>

---------------------------------------------------------------------------
(* amino primitives: decode side.  A decoder takes the buffer and the      *)
(* cursor's position (1-based) and returns [ok, val, pos]: the value and   *)
(* the position after it, or a DecodeError (ok = FALSE).                   *)

DecodeError == [ok |-> FALSE, val |-> 0, pos |-> 0]

Decoded(v, p) == [ok |-> TRUE, val |-> v, pos |-> p]

MaxVarintLen == 10

\* base 128, least significant group first, continuation in the high bit
RECURSIVE decode_uvarint_from(_, _, _, _, _)
decode_uvarint_from(data, pos, mult, acc, n) ==
    IF pos > Len(data) \/ n >= MaxVarintLen THEN DecodeError
    ELSE IF data[pos] < 128 THEN Decoded(acc + data[pos] * mult, pos + 1)
    ELSE decode_uvarint_from(data, pos + 1, mult * 128,
                             acc + (data[pos] - 128) * mult, n + 1)

decode_uvarint(data, pos) == decode_uvarint_from(data, pos, 1, 0, 0)

unzigzag(u) == IF u % 2 = 0 THEN u \div 2 ELSE -((u + 1) \div 2)

decode_varint(data, pos) ==
    LET r == decode_uvarint(data, pos)
    IN  IF r.ok THEN Decoded(unzigzag(r.val), r.pos) ELSE DecodeError

RECURSIVE be_value(_)
be_value(bytes) ==
    IF bytes = <<>> THEN 0
    ELSE be_value(SubSeq(bytes, 1, Len(bytes) - 1)) * 256 + Last(bytes)

\* two's complement on `width` bytes, most significant first
decode_fixed_be(data, pos, width) ==
    IF pos + width - 1 > Len(data) THEN DecodeError
    ELSE LET bytes == Slice(data, pos, pos + width - 1)
         IN  IF bytes[1] < 128 THEN Decoded(be_value(bytes), pos + width)
             ELSE Decoded(-(be_value([k \in 1..width |-> 255 - bytes[k]])) - 1,
                          pos + width)

decode_int64(data, pos) == decode_fixed_be(data, pos, 8)

decode_int32(data, pos) == decode_fixed_be(data, pos, 4)

decode_uint8(data, pos) ==
    LET r == decode_uvarint(data, pos)
    IN  IF r.ok /\ r.val < 256 THEN r ELSE DecodeError

\* reads the field key and compares it with the expected one
check_field_number_typ3(num, t, data, pos) ==
    LET r == decode_uvarint(data, pos)
    IN  IF r.ok /\ r.val = num * 8 + typ3_to_byte(t) THEN r ELSE DecodeError

expect_struct_term(data, pos) ==
    IF pos <= Len(data) /\ data[pos] = typ3_to_byte("Typ3_StructTerm")
    THEN Decoded(0, pos + 1) ELSE DecodeError

amino_bytes_decode(data, pos) ==
    LET r == decode_uvarint(data, pos)
    IN  IF ~r.ok \/ r.pos + r.val - 1 > Len(data) THEN DecodeError
        ELSE Decoded(Slice(data, r.pos, r.pos + r.val - 1), r.pos + r.val)

amino_time_decode(data, pos) ==
    LET k1 == check_field_number_typ3(1, "Typ3_8Byte", data, pos)
        s  == decode_int64(data, k1.pos)
        k2 == check_field_number_typ3(2, "Typ3_4Byte", data, s.pos)
        n  == decode_int32(data, k2.pos)
        t  == expect_struct_term(data, n.pos)
    IN  IF ~k1.ok THEN DecodeError
        ELSE IF ~s.ok THEN DecodeError
        ELSE IF ~k2.ok THEN DecodeError
        ELSE IF ~n.ok THEN DecodeError
        ELSE IF ~t.ok THEN DecodeError
        ELSE Decoded([secs |-> s.val, nanos |-> n.val], t.pos)

\* reads the length in front of the message
consume_length(data, pos) == decode_uvarint(data, pos)

\* reads the four disfix bytes, the typ3 bits of the last one masked
consume_prefix(data, pos) ==
    IF pos + 3 > Len(data) THEN DecodeError
    ELSE IF /\ \A k \in 0..2 : data[pos + k] = compute_disfix_pre[k + 1]
            /\ data[pos + 3] - (data[pos + 3] % 8) = compute_disfix_pre[4]
         THEN Decoded(0, pos + 4)
         ELSE DecodeError

\* a field of bytes that serialize leaves out when it is empty: present when
\* the next byte is its key
decode_optional_bytes(num, data, pos) ==
    IF pos > Len(data) THEN DecodeError
    ELSE IF data[pos] = num * 8 + typ3_to_byte("Typ3_ByteLength")
         THEN amino_bytes_decode(data, pos + 1)
         ELSE Decoded(<<>>, pos)

\* BlockID::decode(field_number, buf)
BlockID_decode(num, data, pos) ==
    LET k  == check_field_number_typ3(num, "Typ3_Struct", data, pos)
        h  == decode_optional_bytes(1, data, k.pos)
        kp == check_field_number_typ3(2, "Typ3_Struct", data, h.pos)
        kt == check_field_number_typ3(1, "Typ3_Varint", data, kp.pos)
        t  == decode_varint(data, kt.pos)
        ph == decode_optional_bytes(2, data, t.pos)
        e1 == expect_struct_term(data, ph.pos)
        e2 == expect_struct_term(data, e1.pos)
    IN  IF ~k.ok THEN DecodeError
        ELSE IF ~h.ok THEN DecodeError
        ELSE IF ~kp.ok THEN DecodeError
        ELSE IF ~kt.ok THEN DecodeError
        ELSE IF ~t.ok THEN DecodeError
        ELSE IF ~ph.ok THEN DecodeError
        ELSE IF ~e1.ok THEN DecodeError
        ELSE IF ~e2.ok THEN DecodeError
        ELSE Decoded([hash |-> h.val,
                      parts_header |-> [total |-> t.val, hash |-> ph.val]],
                     e2.pos)

char_to_vote_type(c) ==
    CASE c = 1 -> Decoded("PreVote", 0)
      [] c = 2 -> Decoded("PreCommit", 0)
      [] OTHER -> DecodeError

---------------------------------------------------------------------------
(* Vote::deserialize.  Its outcome is Ok(vote), Err(DecodeError), or a     *)
(* panic: Buf::get_u8 on an exhausted cursor and copy_from_slice on a      *)
(* slice of another length both abort.                                     *)

NoVote == <<>>

Ok(v) == [kind |-> "Ok", vote |-> v]

Err == [kind |-> "Err", vote |-> NoVote]

Panic == [kind |-> "Panic", vote |-> NoVote]

\* everything up to and including the BlockID: the fields read and the
\* cursor's position after them
deserialize_fields(data) ==
    LET l   == consume_length(data, 1)
        p   == consume_prefix(data, l.pos)
        k0  == check_field_number_typ3(1, "Typ3_Struct", data, p.pos)
        k1  == check_field_number_typ3(1, "Typ3_ByteLength", data, k0.pos)
        va  == amino_bytes_decode(data, k1.pos)
        k2  == check_field_number_typ3(2, "Typ3_Varint", data, va.pos)
        vi  == decode_varint(data, k2.pos)
        k3  == check_field_number_typ3(3, "Typ3_8Byte", data, vi.pos)
        hg  == decode_int64(data, k3.pos)
        k4  == check_field_number_typ3(4, "Typ3_Varint", data, hg.pos)
        rd  == decode_varint(data, k4.pos)
        k5  == check_field_number_typ3(5, "Typ3_Struct", data, rd.pos)
        ts  == amino_time_decode(data, k5.pos)
        k6  == check_field_number_typ3(6, "Typ3_Varint", data, ts.pos)
        c   == decode_uint8(data, k6.pos)
        vt  == char_to_vote_type(c.val)
        bid == BlockID_decode(7, data, c.pos)
    IN  IF ~l.ok THEN DecodeError
        ELSE IF ~p.ok THEN DecodeError
        ELSE IF ~k0.ok THEN DecodeError
        ELSE IF ~k1.ok THEN DecodeError
        ELSE IF ~va.ok THEN DecodeError
        ELSE IF ~k2.ok THEN DecodeError
        ELSE IF ~vi.ok THEN DecodeError
        ELSE IF ~k3.ok THEN DecodeError
        ELSE IF ~hg.ok THEN DecodeError
        ELSE IF ~k4.ok THEN DecodeError
        ELSE IF ~rd.ok THEN DecodeError
        ELSE IF ~k5.ok THEN DecodeError
        ELSE IF ~ts.ok THEN DecodeError
        ELSE IF ~k6.ok THEN DecodeError
        ELSE IF ~c.ok THEN DecodeError
        ELSE IF ~vt.ok THEN DecodeError
        ELSE IF ~bid.ok THEN DecodeError
        ELSE Decoded([validator_address |-> va.val,
                      validator_index |-> vi.val,
                      height |-> hg.val,
                      round |-> rd.val,
                      timestamp |-> ts.val,
                      vote_type |-> vt.val,
                      block_id |-> bid.val], bid.pos)

\* 6 << 3 | typ3_to_byte(Typ3_Interface)
sig_field_prefix == 6 * 8 + typ3_to_byte("Typ3_Interface")

struct_end_postfix == typ3_to_byte("Typ3_StructTerm")

\* let _struct_term_typ3 = buf.get_u8(); then the test of optional_typ3
deserialize_close(data, fields, signature, optional_typ3, pos) ==
    IF pos > Len(data) THEN Panic
    ELSE IF optional_typ3 # struct_end_postfix THEN Err
    ELSE Ok([validator_address |-> fields.validator_address,
             validator_index |-> fields.validator_index,
             height |-> fields.height,
             round |-> fields.round,
             timestamp |-> fields.timestamp,
             vote_type |-> fields.vote_type,
             block_id |-> fields.block_id,
             signature |-> signature])

\* the optional signature and the closing bytes, from position pos
deserialize_signature(data, fields, pos) ==
    IF pos > Len(data) THEN Panic
    ELSE IF data[pos] = sig_field_prefix
    THEN LET sb == amino_bytes_decode(data, pos + 1)
         IN  IF ~sb.ok THEN Err
             ELSE IF Len(sb.val) # SIGNATURE_SIZE THEN Panic
             ELSE IF sb.pos > Len(data) THEN Panic
             ELSE deserialize_close(data, fields, Some(sb.val),
                                    data[sb.pos], sb.pos + 1)
    ELSE deserialize_close(data, fields, None, data[pos], pos + 1)

deserialize(data) ==
    LET f == deserialize_fields(data)
    IN  IF ~f.ok THEN Err ELSE deserialize_signature(data, f.val, f.pos)

---------------------------------------------------------------------------
(* The codec's state machine: a Vote is serialized; the bytes are handed   *)
(* to deserialize as they are, or after the stream cut them short or       *)
(* changed one of them; a peer may also send bytes of its own making.      *)

TestSig == [i \in 1..SIGNATURE_SIZE |-> i]

Addresses == {<<>>, TestAddr}

Indexes == {-3, 56789}

Heights == {0, 12345}

Rounds == {0, 2}

Times == {TestTime, [secs |-> -1, nanos |-> 999999999]}

VoteTypes == {"PreVote", "PreCommit"}

Hashes == {<<>>, Bytes_hash}

PartsHeaders == {[total |-> 0, hash |-> <<>>],
                 [total |-> 1000000, hash |-> <<>>],
                 [total |-> 1000000, hash |-> Bytes_parts_hash]}

Signatures == {None, Some(TestSig)}

Votes ==
    [validator_address : Addresses, validator_index : Indexes,
     height : Heights, round : Rounds, timestamp : Times,
     vote_type : VoteTypes,
     block_id : [hash : Hashes, parts_header : PartsHeaders],
     signature : Signatures]

\* the signature lengths a peer tries lie within MaxSigSkew of SIGNATURE_SIZE
MaxSigSkew == 1

ForeignSigLens ==
    {0} \cup ((SIGNATURE_SIZE - MaxSigSkew)..(SIGNATURE_SIZE + MaxSigSkew))

\* the key serialize writes in front of a signature, and the one deserialize
\* looks for
SigKeys == {8 * 8 + typ3_to_byte("Typ3_Interface"), sig_field_prefix}

\* the values a changed byte takes
TamperBytes == {0, StructTerm, sig_field_prefix,
                8 * 8 + typ3_to_byte("Typ3_Interface"), 255}

Untouched == [kind |-> "none", at |-> 0, byte |-> 0]

NoResult == [kind |-> "none", vote |-> NoVote]

\* the position of the byte that follows the BlockID in serialize(v)
PosAfterBlockID(v) == Len(serialize_frame(serialize_fields(v) \o serialize_close)) - 1

SessionIdle ==
    /\ sent = <<>>
    /\ socket_in = <<>>
    /\ peer_open = TRUE
    /\ socket_out = <<>>
    /\ keyring = {}
    /\ status = "Closed"
    /\ calls = <<>>

CodecInit ==
    /\ vote \in Votes
    /\ wire = <<>>
    /\ tamper = Untouched
    /\ res = NoResult
    /\ pc = "start"
    /\ SessionIdle

Serialize ==
    /\ pc = "start"
    /\ wire' = serialize(vote)
    /\ tamper' = Untouched
    /\ pc' = "serialized"
    /\ UNCHANGED <<vote, res>>
    /\ UNCHANGED session_vars

\* the stream ends after n bytes of the message
Truncate ==
    /\ pc = "serialized"
    /\ tamper = Untouched
    /\ \E n \in 0..(Len(wire) - 1) :
          /\ wire' = SubSeq(wire, 1, n)
          /\ tamper' = [kind |-> "truncate", at |-> n, byte |-> 0]
    /\ UNCHANGED <<vote, res, pc>>
    /\ UNCHANGED session_vars

\* one of the bytes that follow the BlockID arrives changed
ReplaceByte ==
    /\ pc = "serialized"
    /\ tamper = Untouched
    /\ \E i \in {PosAfterBlockID(vote), Len(wire) - 1, Len(wire)} :
       \E b \in TamperBytes \ {wire[i]} :
          /\ wire' = [wire EXCEPT ![i] = b]
          /\ tamper' = [kind |-> "replace", at |-> i, byte |-> b]
    /\ UNCHANGED <<vote, res, pc>>
    /\ UNCHANGED session_vars

\* a peer frames the fields of an unsigned Vote with a signature field of
\* its own: a key, a length and that many bytes
ForeignSignature ==
    /\ pc = "start"
    /\ vote.signature = None
    /\ \E key \in SigKeys : \E n \in ForeignSigLens :
          /\ wire' = serialize_frame(serialize_fields(vote) \o <<key>>
                                     \o amino_bytes_encode(SubSeq(TestSig \o TestSig, 1, n))
                                     \o serialize_close)
          /\ tamper' = [kind |-> "signature", at |-> n, byte |-> key]
    /\ pc' = "serialized"
    /\ UNCHANGED <<vote, res>>
    /\ UNCHANGED session_vars

Deserialize ==
    /\ pc = "serialized"
    /\ res' = deserialize(wire)
    /\ pc' = "decoded"
    /\ UNCHANGED <<vote, wire, tamper>>
    /\ UNCHANGED session_vars

CodecNext ==
    \/ Serialize
    \/ Truncate
    \/ ReplaceByte
    \/ ForeignSignature
    \/ Deserialize

Spec == CodecInit /\ [][CodecNext]_vars

---------------------------------------------------------------------------
(* Reading an encoding back by its typ3 bits alone, with no knowledge of   *)
(* the Vote's schedule: the keys present, each with the field numbers of   *)
(* the structs around it.                                                  *)

Front(s) == SubSeq(s, 1, Len(s) - 1)

RECURSIVE WalkKeys(_, _, _, _)
WalkKeys(data, pos, path, acc) ==
    IF pos > Len(data) THEN acc
    ELSE LET num  == data[pos] \div 8
             t    == data[pos] % 8
             here == Append(acc, [path |-> path, num |-> num, typ3 |-> t])
         IN  CASE t = typ3_to_byte("Typ3_StructTerm") ->
                    WalkKeys(data, pos + 1,
                             IF path = <<>> THEN path ELSE Front(path), acc)
               [] t = typ3_to_byte("Typ3_Struct") ->
                    WalkKeys(data, pos + 1, Append(path, num), here)
               [] t = typ3_to_byte("Typ3_Varint") ->
                    WalkKeys(data, decode_uvarint(data, pos + 1).pos, path, here)
               [] t = typ3_to_byte("Typ3_8Byte") ->
                    WalkKeys(data, pos + 9, path, here)
               [] t = typ3_to_byte("Typ3_4Byte") ->
                    WalkKeys(data, pos + 5, path, here)
               [] OTHER ->
                    WalkKeys(data, amino_bytes_decode(data, pos + 1).pos, path, here)

\* the keys of a framed message: after the length and the four disfix bytes
FieldKeys(data) == WalkKeys(data, decode_uvarint(data, 1).pos + 4, <<>>, <<>>)

HasKey(keys, path, num) ==
    \E i \in 1..Len(keys) : keys[i].path = path /\ keys[i].num = num

Ascending(keys) ==
    \A i, j \in 1..Len(keys) :
        (i < j /\ keys[i].path = keys[j].path) => keys[i].num < keys[j].num

Genuine == pc # "start" /\ tamper = Untouched

---------------------------------------------------------------------------
(* Claims about the codec *)

\* C1: round trip: Vote::deserialize(v.serialize()) is Ok with a record equal
\* to v in every field, for every valid Vote v.
C1_RoundTrip ==
    (pc = "decoded" /\ tamper = Untouched) => res = Ok(vote)

\* C6: length prefix: the leading uvarint of v.serialize() is the number of
\* bytes that follow it; those bytes start with the four disfix bytes and end
\* with the StructTerm that closes the outermost struct.
C6_LengthPrefix ==
    Genuine =>
        LET l == decode_uvarint(wire, 1)
        IN  /\ l.ok
            /\ l.val = Len(wire) - (l.pos - 1)
            /\ l.val >= 5
            /\ SubSeq(wire, l.pos, l.pos + 3) = SubSeq(TestVector1, 2, 5)
            /\ Last(wire) = 4

\* a serialized Vote long enough for a length of two bytes
C6_Witness ==
    /\ pc = "serialized"
    /\ tamper = Untouched
    /\ decode_uvarint(wire, 1).pos = 3
    /\ vote.signature.is_some

\* what both readings of C7 share: a field of bytes and the signature have
\* their key in the encoding exactly when they are not empty, and the keys
\* of each struct ascend strictly
OmitsEmptyBytes(keys) ==
    /\ HasKey(keys, <<1>>, 1) <=> vote.validator_address # <<>>
    /\ HasKey(keys, <<1, 7>>, 1) <=> vote.block_id.hash # <<>>
    /\ HasKey(keys, <<1, 7, 2>>, 2) <=> vote.block_id.parts_header.hash # <<>>
    /\ HasKey(keys, <<1>>, 8) <=> vote.signature.is_some
    /\ Ascending(keys)

EmptyPartsHeader == vote.block_id.parts_header = [total |-> 0, hash |-> <<>>]

NilBlockID == vote.block_id.hash = <<>> /\ EmptyPartsHeader

\* C7 as stated: every optional field whose value is empty is skipped
\* entirely (no key, no body): an empty validator_address, block_id.hash or
\* parts_header.hash, a None signature, and an all-empty nested struct (a
\* parts_header with total 0 and empty hash, a nil BlockID); the fields
\* emitted ascend strictly in field number within their struct.
C7_OmissionAsStated ==
    Genuine =>
        LET keys == FieldKeys(wire)
        IN  /\ OmitsEmptyBytes(keys)
            /\ EmptyPartsHeader => ~HasKey(keys, <<1, 7>>, 2)
            /\ NilBlockID => ~HasKey(keys, <<1>>, 7)

\* C7 amended: an empty validator_address, block_id.hash or parts_header.hash
\* and a None signature are skipped entirely; the nested structs are not:
\* the BlockID, its parts_header and the parts_header's total are always
\* emitted, an all-empty parts_header as 13 08 00 04; the fields emitted
\* ascend strictly in field number within their struct.
C7_Omission ==
    Genuine =>
        LET keys == FieldKeys(wire)
        IN  /\ OmitsEmptyBytes(keys)
            /\ HasKey(keys, <<1>>, 7)
            /\ HasKey(keys, <<1, 7>>, 2)
            /\ HasKey(keys, <<1, 7, 2>>, 1)
            /\ Len(keys) = 11 + Cardinality({f \in 1..4 :
                    \/ f = 1 /\ vote.validator_address # <<>>
                    \/ f = 2 /\ vote.block_id.hash # <<>>
                    \/ f = 3 /\ vote.block_id.parts_header.hash # <<>>
                    \/ f = 4 /\ vote.signature.is_some})
            /\ EmptyPartsHeader =>
                   LET e == Len(wire) - 2
                            - (IF vote.signature.is_some THEN SIGNATURE_SIZE + 2 ELSE 0)
                   IN  SubSeq(wire, e - 4, e - 1) = <<19, 8, 0, 4>>

\* a Vote with every optional field empty has been serialized
C7_Witness ==
    /\ pc = "serialized"
    /\ tamper = Untouched
    /\ vote.validator_address = <<>>
    /\ NilBlockID
    /\ vote.signature = None

\* the byte deserialize reads after the BlockID, when it gets that far
AfterBlockID == deserialize_fields(wire)

\* C8: after the BlockID the next byte decides the signature: if it is
\* field_tag(8, Interface), the key serialize emits for a Some signature, a
\* 64-byte signature is decoded and the Vote has signature Some; otherwise
\* the byte must be StructTerm and the Vote has signature None; any other
\* byte makes deserialize return an error.
C8_SignatureKey ==
    (pc = "decoded" /\ AfterBlockID.ok /\ AfterBlockID.pos <= Len(wire)) =>
        LET b  == wire[AfterBlockID.pos]
            sb == amino_bytes_decode(wire, AfterBlockID.pos + 1)
        IN  /\ (tamper = Untouched /\ vote.signature.is_some) =>
                   b = 8 * 8 + typ3_to_byte("Typ3_Interface")
            /\ (/\ b = 8 * 8 + typ3_to_byte("Typ3_Interface")
                /\ sb.ok
                /\ Len(sb.val) = SIGNATURE_SIZE
                /\ SubSeq(wire, sb.pos, Len(wire)) = <<StructTerm, StructTerm>>) =>
                   /\ res.kind = "Ok"
                   /\ res.vote.signature = Some(sb.val)
            /\ (b = StructTerm /\ res.kind = "Ok") => res.vote.signature = None
            /\ b \notin {8 * 8 + typ3_to_byte("Typ3_Interface"), StructTerm} =>
                   res.kind # "Ok"

\* C9: deserialize returns Ok only when exactly two StructTerm bytes close
\* the message: an encoded Vote whose final byte, or whose first closing
\* byte, is replaced by another value is rejected with an error.
C9_TwoStructTerms ==
    (/\ pc = "decoded"
     /\ tamper.kind = "replace"
     /\ tamper.at \in {Len(wire) - 1, Len(wire)}) => res.kind = "Err"

\* C10: for a truncated encoding (a proper prefix of serialize(v)) and for an
\* input whose signature body is not 64 bytes long, deserialize returns an
\* Err: it never returns Ok and never panics.
C10_TruncatedIsErr ==
    (/\ pc = "decoded"
     /\ \/ tamper.kind = "truncate"
        \/ tamper.kind = "signature" /\ tamper.at # SIGNATURE_SIZE) =>
        res.kind = "Err"

---------------------------------------------------------------------------
(* The session (src/session.rs).  The stream carries frames: the requests  *)
(* the validator has written wait in socket_in, the responses the session  *)
(* has written are in socket_out.  Request::read, Response::to_vec, the    *)
(* keyring and the ed25519 primitive are collaborators outside the two     *)
(* source files, written from the specification.  The build is a debug     *)
(* build: Request has the PoisonPill variant.                              *)

PUBLIC_KEY_SIZE == 32

Key1 == Repeat(17, PUBLIC_KEY_SIZE)

Key2 == Repeat(34, PUBLIC_KEY_SIZE)

\* a well-formed key the keyring holds no signer for
Key3 == Repeat(51, PUBLIC_KEY_SIZE)

\* one byte short of a public key
ShortKey == Repeat(17, PUBLIC_KEY_SIZE - 1)

InitialKeyring == {Key1, Key2}

Msg1 == <<1, 2, 3>>

Msg2 == <<>>

SignRequest(pk, msg) == [kind |-> "Sign", public_key |-> pk, msg |-> msg]

PoisonPill == [kind |-> "PoisonPill", public_key |-> <<>>, msg |-> <<>>]

\* bytes that are no request
Garbage == [kind |-> "Garbage", public_key |-> <<>>, msg |-> <<>>]

NoRequest == [kind |-> "None", public_key |-> <<>>, msg |-> <<>>]

Frames ==
    {SignRequest(pk, m) : pk \in {Key1, Key2, Key3, ShortKey}, m \in {Msg1, Msg2}}
    \cup {PoisonPill, Garbage}

\* the signature of msg under the key pair of pk: 64 bytes, a function of
\* the key and of every byte of the message
Ed25519Sign(pk, msg) ==
    [i \in 1..SIGNATURE_SIZE |->
        (pk[((i - 1) % Len(pk)) + 1] * (Len(msg) + 1)
         + (IF msg = <<>> THEN 0 ELSE msg[((i - 1) % Len(msg)) + 1]) + i) % 256]

\* PublicKey::from_bytes
PublicKey_from_bytes(bytes) ==
    IF Len(bytes) = PUBLIC_KEY_SIZE
    THEN [ok |-> TRUE, val |-> bytes] ELSE [ok |-> FALSE, val |-> <<>>]

\* Keyring::sign(&self, pk, msg)
Keyring_sign(kr, pk, msg) ==
    IF pk \in kr
    THEN [ok |-> TRUE, val |-> Ed25519Sign(pk, msg)]
    ELSE [ok |-> FALSE, val |-> <<>>]

Response_Sign(sig) == [kind |-> "Sign", sig |-> sig]

\* what a failed write_all may leave on the stream: a part of the frame
TornFrame == [kind |-> "Torn", sig |-> <<>>]

NoResponse == [kind |-> "None", sig |-> <<>>]

\* Request::read(&mut socket): blocks while the stream is empty and open;
\* an error at the end of the stream or on bytes that are no request
Request_read_ready(sin, open) == sin # <<>> \/ ~open

Request_read(sin) ==
    IF sin = <<>> THEN [ok |-> FALSE, request |-> NoRequest, rest |-> sin]
    ELSE IF Head(sin).kind = "Garbage"
         THEN [ok |-> FALSE, request |-> Head(sin), rest |-> Tail(sin)]
         ELSE [ok |-> TRUE, request |-> Head(sin), rest |-> Tail(sin)]

\* socket.write_all(frame): io is how the stream takes it
WriteOutcomes == {"written", "failed", "torn"}

write_all(sout, frame, io) ==
    CASE io = "written" -> [ok |-> TRUE, out |-> Append(sout, frame)]
      [] io = "failed"  -> [ok |-> FALSE, out |-> sout]
      [] io = "torn"    -> [ok |-> FALSE, out |-> Append(sout, TornFrame)]

\* a sign that takes the keyring's first key instead of the request's
sign_any_key(kr, request) ==
    LET pk == PublicKey_from_bytes(request.public_key)
        signature == Keyring_sign(kr, Key1, request.msg)
    IN  IF ~pk.ok THEN [ok |-> FALSE, response |-> NoResponse]
        ELSE IF ~signature.ok THEN [ok |-> FALSE, response |-> NoResponse]
        ELSE [ok |-> TRUE, response |-> Response_Sign(signature.val)]

\* Session::sign
sign(kr, request) ==
    LET pk == PublicKey_from_bytes(request.public_key)
        signature == Keyring_sign(kr, pk.val, request.msg)
    IN  IF ~pk.ok THEN [ok |-> FALSE, response |-> NoResponse]
        ELSE IF ~signature.ok THEN [ok |-> FALSE, response |-> NoResponse]
        ELSE [ok |-> TRUE, response |-> Response_Sign(signature.val)]

\* what one call of handle_request leaves: the stream's two directions, the
\* value returned, and what the call did
Outcome(sin, sout, ret, request, reads, signs, sign_ok, write) ==
    [socket_in |-> sin, socket_out |-> sout, ret |-> ret,
     call |-> [request |-> request, reads |-> reads, signs |-> signs,
               sign_ok |-> sign_ok, write |-> write, ret |-> ret]]

\* a handle_request that answers a request it could not sign for with an
\* empty response and goes on
handle_request_answers_errors(sin, sout, kr, io) ==
    LET rd == Request_read(sin)
        s  == sign(kr, rd.request)
        w  == write_all(sout, IF s.ok THEN s.response ELSE Response_Sign(<<>>), io)
    IN  IF ~rd.ok
        THEN Outcome(rd.rest, sout, "Err", rd.request, 1, 0, FALSE, "none")
        ELSE IF rd.request.kind = "PoisonPill"
        THEN Outcome(rd.rest, sout, "Ok(false)", rd.request, 1, 0, FALSE, "none")
        ELSE IF ~w.ok
        THEN Outcome(rd.rest, w.out, "Err", rd.request, 1, 1, s.ok, io)
        ELSE Outcome(rd.rest, w.out, "Ok(true)", rd.request, 1, 1, s.ok, io)

\* a handle_request that acknowledges the PoisonPill on the stream
handle_request_acks_pill(sin, sout, kr, io) ==
    LET rd == Request_read(sin)
        s  == sign(kr, rd.request)
        w  == write_all(sout, s.response, io)
    IN  IF ~rd.ok
        THEN Outcome(rd.rest, sout, "Err", rd.request, 1, 0, FALSE, "none")
        ELSE IF rd.request.kind = "PoisonPill"
        THEN Outcome(rd.rest, Append(sout, Response_Sign(<<>>)), "Ok(false)",
                     rd.request, 1, 0, FALSE, "none")
        ELSE IF ~s.ok
        THEN Outcome(rd.rest, sout, "Err", rd.request, 1, 1, FALSE, "none")
        ELSE IF ~w.ok
        THEN Outcome(rd.rest, w.out, "Err", rd.request, 1, 1, TRUE, io)
        ELSE Outcome(rd.rest, w.out, "Ok(true)", rd.request, 1, 1, TRUE, io)

\* a handle_request that reads on when a second request is waiting and
\* answers only the later one
handle_request_reads_ahead(sin, sout, kr, io) ==
    LET rd0 == Request_read(sin)
        rd == IF rd0.ok /\ rd0.request.kind = "Sign" /\ rd0.rest # <<>>
                 /\ Head(rd0.rest).kind = "Sign"
              THEN Request_read(rd0.rest) ELSE rd0
        s  == sign(kr, rd.request)
        w  == write_all(sout, s.response, io)
    IN  IF ~rd.ok
        THEN Outcome(rd.rest, sout, "Err", rd.request, 1, 0, FALSE, "none")
        ELSE IF rd.request.kind = "PoisonPill"
        THEN Outcome(rd.rest, sout, "Ok(false)", rd.request, 1, 0, FALSE, "none")
        ELSE IF ~s.ok
        THEN Outcome(rd.rest, sout, "Err", rd.request, 1, 1, FALSE, "none")
        ELSE IF ~w.ok
        THEN Outcome(rd.rest, w.out, "Err", rd.request, 1, 1, TRUE, io)
        ELSE Outcome(rd.rest, w.out, "Ok(true)", rd.request, 1, 1, TRUE, io)

\* Session::handle_request
handle_request(sin, sout, kr, io) ==
    LET rd == Request_read(sin)
        s  == sign(kr, rd.request)
        w  == write_all(sout, s.response, io)
    IN  IF ~rd.ok
        THEN Outcome(rd.rest, sout, "Err", rd.request, 1, 0, FALSE, "none")
        ELSE IF rd.request.kind = "PoisonPill"
        THEN Outcome(rd.rest, sout, "Ok(false)", rd.request, 1, 0, FALSE, "none")
        ELSE IF ~s.ok
        THEN Outcome(rd.rest, sout, "Err", rd.request, 1, 1, FALSE, "none")
        ELSE IF ~w.ok
        THEN Outcome(rd.rest, w.out, "Err", rd.request, 1, 1, TRUE, io)
        ELSE Outcome(rd.rest, w.out, "Ok(true)", rd.request, 1, 1, TRUE, io)

\* the caller's loop: it calls again after Ok(true); on Ok(false) and on an
\* error it drops the session
caller_continues(ret) == ret = "Ok(true)"

\* the validator writes at most MaxRequests frames
MaxRequests == 3

CodecIdle ==
    /\ vote = TestVote1
    /\ wire = <<>>
    /\ tamper = Untouched
    /\ res = NoResult
    /\ pc = "idle"

SessionInit ==
    /\ sent = <<>>
    /\ socket_in = <<>>
    /\ peer_open = TRUE
    /\ socket_out = <<>>
    /\ keyring = InitialKeyring
    /\ status = "Serving"
    /\ calls = <<>>
    /\ CodecIdle

ValidatorSend ==
    /\ status = "Serving"
    /\ peer_open
    /\ Len(sent) < MaxRequests
    /\ \E f \in Frames :
          /\ sent' = Append(sent, f)
          /\ socket_in' = Append(socket_in, f)
    /\ UNCHANGED <<peer_open, socket_out, keyring, status, calls>>
    /\ UNCHANGED codec_vars

ValidatorClose ==
    /\ status = "Serving"
    /\ peer_open
    /\ peer_open' = FALSE
    /\ UNCHANGED <<sent, socket_in, socket_out, keyring, status, calls>>
    /\ UNCHANGED codec_vars

HandleRequest ==
    /\ status = "Serving"
    /\ Request_read_ready(socket_in, peer_open)
    /\ \E io \in WriteOutcomes :
          LET o == handle_request(socket_in, socket_out, keyring, io)
          IN  /\ socket_in' = o.socket_in
              /\ socket_out' = o.socket_out
              /\ calls' = Append(calls, o.call)
              /\ status' = IF caller_continues(o.ret) THEN "Serving" ELSE "Closed"
    /\ UNCHANGED <<sent, peer_open, keyring>>
    /\ UNCHANGED codec_vars

SessionNext ==
    \/ ValidatorSend
    \/ ValidatorClose
    \/ HandleRequest

SessionSpec == SessionInit /\ [][SessionNext]_vars

---------------------------------------------------------------------------
(* Claims about the session *)

\* the frames the session has taken off the stream
Consumed == Len(sent) - Len(socket_in)

IsSign(f) == f.kind = "Sign"

\* the Sign requests read so far, in the order read
SignReads == SelectSeq(SubSeq(sent, 1, Consumed), IsSign)

Answer(req) == Response_Sign(Ed25519Sign(req.public_key, req.msg))

\* the request can be signed: its key is a public key the keyring holds
Signable(req) ==
    /\ req.kind = "Sign"
    /\ Len(req.public_key) = PUBLIC_KEY_SIZE
    /\ req.public_key \in InitialKeyring

PoisonPillStops ==
    \A k \in 1..Len(calls) :
        calls[k].request.kind = "PoisonPill" =>
            /\ calls[k].ret = "Ok(false)"
            /\ k = Len(calls)
            /\ Consumed = k
            /\ Len(socket_out) = k - 1
            /\ \A j \in 1..Len(socket_out) : socket_out[j].kind = "Sign"
            /\ status = "Closed"

\* C3 as stated: on a PoisonPill handle_request returns Ok(false), writes no
\* bytes and reads no further; for every Sign request that is signed
\* successfully it returns Ok(true).
C3_PoisonPillAsStated ==
    /\ PoisonPillStops
    /\ \A k \in 1..Len(calls) :
          Signable(calls[k].request) => calls[k].ret = "Ok(true)"

\* C3 amended: on a PoisonPill handle_request returns Ok(false), writes no
\* bytes and reads no further; for every Sign request that is signed
\* successfully and whose response the stream takes whole it returns
\* Ok(true), and only for those.
C3_PoisonPill ==
    /\ PoisonPillStops
    /\ \A k \in 1..Len(calls) :
          calls[k].ret = "Ok(true)" <=>
              (Signable(calls[k].request) /\ calls[k].write = "written")

\* a PoisonPill was read after an answered request, with a frame still waiting
C3_Witness ==
    /\ Len(calls) = 2
    /\ calls[1].ret = "Ok(true)"
    /\ calls[2].request = PoisonPill
    /\ socket_in # <<>>

\* the read failed, the key is no public key, or the keyring has no signer
Unservable(req) == req.kind \in {"None", "Garbage"} \/ (req.kind = "Sign" /\ ~Signable(req))

\* C4: when reading or decoding the request fails, when public_key is not a
\* valid key, or when the keyring has no signer for it, handle_request
\* returns the error, does not retry the read or the signing, and writes no
\* response bytes; a write failure is returned as an error, not Ok(true).
C4_ErrorsPropagate ==
    \A k \in 1..Len(calls) :
        /\ Unservable(calls[k].request) =>
              /\ calls[k].ret = "Err"
              /\ k = Len(calls)
              /\ Consumed <= k
              /\ Len(socket_out) = k - 1
              /\ \A j \in 1..Len(socket_out) : socket_out[j].kind = "Sign"
              /\ calls[k].reads = 1
              /\ calls[k].signs <= 1
              /\ status = "Closed"
        /\ calls[k].write \in {"failed", "torn"} =>
              /\ calls[k].ret = "Err"
              /\ status = "Closed"

\* a request under a key the keyring does not hold came after an answered one
C4_Witness ==
    /\ Len(calls) = 2
    /\ calls[1].ret = "Ok(true)"
    /\ calls[2].request = SignRequest(Key3, Msg1)
    /\ calls[2].ret = "Err"

\* C5: for a Sign request whose public_key the keyring holds, the response
\* written is Sign(SignResponse{sig}) with sig the keyring's signature under
\* that key of exactly the bytes of msg; the keyring is left unchanged.
C5_SignsVerbatim ==
    /\ keyring = InitialKeyring
    /\ \A k \in 1..Len(calls) :
          (Signable(calls[k].request) /\ calls[k].write = "written") =>
              /\ k <= Len(socket_out)
              /\ socket_out[k].kind = "Sign"
              /\ Len(socket_out[k].sig) = SIGNATURE_SIZE
              /\ socket_out[k].sig =
                     Ed25519Sign(calls[k].request.public_key, calls[k].request.msg)
              /\ \A pk \in InitialKeyring, m \in {Msg1, Msg2} :
                     <<pk, m>> # <<calls[k].request.public_key, calls[k].request.msg>>
                         => socket_out[k].sig # Ed25519Sign(pk, m)

\* a request under the keyring's second key was answered
C5_Witness ==
    /\ Len(calls) >= 1
    /\ calls[1].request = SignRequest(Key2, Msg1)
    /\ calls[1].ret = "Ok(true)"
    /\ socket_out # <<>>

=============================================================================
